---- MODULE Spec2Model ----
(***************************************************************************)
(* Dubsmart AI dubbing service: the job table and background worker of the *)
(* FastAPI apps (api/logic.py + api/routes.py, and the standalone          *)
(* api/main.py), the DubbingPipeline.process stage sequence, and the       *)
(* VoiceCloner synthesis fallback chain (modules/cloning.py); then the     *)
(* library functions of the timeline layer, each called on its own: the    *)
(* two mixers, align_timing, align_with_speakers, the segment mergers and  *)
(* translate_segments.                                                     *)
(***************************************************************************)
EXTENDS Integers, Sequences, FiniteSets, TLC

\* ------------------------------------------------------------------ bounds
NumJobs == 2
MaxSegs == 2

Jobs == 1..NumJobs
\* the standalone caller of batch_clone_voices (scripts/verify_pipeline.py)
Script == NumJobs + 1
Callers == 1..(NumJobs + 1)

\* ------------------------------------------------------- program constants
SUPPORTED_LANGUAGES ==
  {"en", "hi", "te", "es", "fr", "de", "it", "pt", "pl", "tr", "ru", "nl",
   "cs", "ar", "zh-cn", "ja", "ko"}

\* the language codes a caller submits in the model: "auto" (the form
\* default), supported codes, and one code outside the table
SrcChoices == {"auto", "en"}
TgtChoices == {"hi", "en", "xx"}

SynDir == "temp/syn"
ScriptDir == "output/verification/segments"
Speakers == {"S1", "S2"}

StageOrder == <<"transcribe", "diarize", "extract", "translate", "synthesize", "mix">>

\* ------------------------------------------------------------------- paths
Path(d, i, s) == [dir |-> d, i |-> i, spk |-> s]
\* dict key not set / Python None
NoKey == Path("<absent>", 0, "")
None == Path("<None>", 0, "")
IsPath(p) == p # NoKey /\ p # None

OutputPath(j) == Path("output", j, "")
SegPaths == {Path(d, i, s) : d \in {SynDir, ScriptDir}, i \in 0..(MaxSegs - 1),
                             s \in Speakers \cup {"default"}}
FsPaths == SegPaths \cup {OutputPath(j) : j \in Jobs}

Missing == [kind |-> "missing", owner |-> 0]
File(k, c) == [kind |-> k, owner |-> c]

\* ------------------------------------------------------------ job records
Msg(k, t) == [kind |-> k, text |-> t]
NoJob == [status |-> "absent", progress |-> 0, message |-> Msg("", ""), output_file |-> NoKey]
NewJob == [status |-> "processing", progress |-> 0,
           message |-> Msg("Starting pipeline...", ""), output_file |-> NoKey]

NoExc == [text |-> "", handler |-> ""]

\* the value run_pipeline_task / run_pipeline holds in `result`
Unset == [kind |-> "unset", output_path |-> NoKey]

\* a transcription segment as Whisper returns it (t: its text is not blank)
NewSeg(t) == [text |-> t, speaker |-> "absent", translated |-> "absent",
              audio_path |-> NoKey, audio_synthesized |-> "absent"]

\* the record of one clone_voice call: the segment index, the engine calls
\* made, the value returned
NoCall == [seg |-> 0, tiers |-> <<>>, ret |-> ""]

\* env: the environment of a behaviour, fixed by the initial state: how many
\*      jobs clients submit and whether collaborators (Whisper, the
\*      translator, the TTS engines, the disk) may fail;
\* app: the served application, "routes" (api/app.py with logic.py) or
\*      "main" (api/main.py);
\* jobs: the in-memory job table; pc: each worker's position;
\* calls / raised: the stages process() has invoked / the one that raised;
\* segs, ref_map, idx, model, lastCall: the segment list, reference map,
\*      loop index, loaded XTTS model and latest clone_voice call of each
\*      caller of batch_clone_voices; fs: the files on disk;
\* mixed: whose audio each job's mixer loaded; response: the last reply a
\*      reader got;
\* fn, args, locals, ret: a call of one of the library functions on its own
\*      (the mixers, align_timing, align_with_speakers, the segment mergers,
\*      translate_segments): the function and the statement it is at, its
\*      arguments, its local variables, the value it returned.
VARIABLES env, app, jobs, pc, src, tgt, exc, pipeline, calls, raised, result,
          segs, batchIn, ref_map, idx, model, lastCall, fs, mixed, response,
          fn, args, locals, ret

vars == <<env, app, jobs, pc, src, tgt, exc, pipeline, calls, raised, result,
          segs, batchIn, ref_map, idx, model, lastCall, fs, mixed, response,
          fn, args, locals, ret>>

jobVars == <<jobs, src, tgt, exc, pipeline, calls, raised, result, mixed>>
readerVars == <<response>>
synthVars == <<segs, batchIn, ref_map, idx, model, lastCall, fs>>
libVars == <<fn, args, locals, ret>>

\* the last HTTP response a reader received
NoResponse == [req |-> "", job |-> 0, code |-> 0, body |-> NoJob]

\* what is common to every initial state: nothing submitted, nothing on disk
Idle ==
  /\ jobs = [j \in Jobs |-> NoJob]
  /\ pc = [c \in Callers |-> "idle"]
  /\ src = [j \in Jobs |-> ""]
  /\ tgt = [j \in Jobs |-> ""]
  /\ exc = [j \in Jobs |-> NoExc]
  /\ pipeline = [j \in Jobs |-> [constructed |-> FALSE, src_lang |-> ""]]
  /\ calls = [j \in Jobs |-> <<>>]
  /\ raised = [j \in Jobs |-> "none"]
  /\ result = [j \in Jobs |-> Unset]
  /\ segs = [c \in Callers |-> <<>>]
  /\ batchIn = [c \in Callers |-> <<>>]
  /\ ref_map = [c \in Callers |-> {}]
  /\ idx = [c \in Callers |-> 0]
  /\ model = [c \in Callers |-> FALSE]
  /\ fs = [p \in FsPaths |-> Missing]
  /\ mixed = [j \in Jobs |-> <<>>]
  /\ lastCall = [c \in Callers |-> NoCall]
  /\ response = NoResponse

\* no library function is being called on its own
NoArgs == [none |-> TRUE]
LibIdle == fn = "" /\ args = NoArgs /\ locals = NoArgs /\ ret = NoArgs

\* one job, every collaborator may fail
Init ==
  /\ env = [jobs |-> 1, faults |-> TRUE]
  /\ app \in {"routes", "main"}
  /\ Idle
  /\ LibIdle

\* ------------------------------------------------------------- submission
\* POST /dub: create_job + background_tasks.add_task
Submit(j) ==
  /\ j <= env.jobs
  /\ pc[j] = "idle"
  /\ \E s \in SrcChoices, t \in TgtChoices :
       /\ src' = [src EXCEPT ![j] = s]
       /\ tgt' = [tgt EXCEPT ![j] = t]
  /\ jobs' = [jobs EXCEPT ![j] = NewJob]
  /\ pc' = [pc EXCEPT ![j] = "start"]
  /\ UNCHANGED <<env, app, exc, pipeline, calls, raised, result, mixed>>
  /\ UNCHANGED synthVars
  /\ UNCHANGED readerVars
  /\ UNCHANGED libVars

\* --------------------------------------------------------- error handling
\* which except clause of the worker catches an exception raised at `where`
Handler(a, where) ==
  IF a = "main" THEN "main"
  ELSE IF where = "process" THEN "inner" ELSE "outer"

\* the message the except clause stores for exception text t
FailedMessage(h, t) ==
  IF h = "inner" THEN Msg("Pipeline error: ", t)
  ELSE IF h = "outer" THEN Msg("Error: ", t)
  ELSE Msg("", t)

\* Raise with the exception swallowed: the worker ends without recording it
RaiseSwallowed(j, t, where) ==
  /\ exc' = [exc EXCEPT ![j] = [text |-> t, handler |-> Handler(app, where)]]
  /\ pc' = [pc EXCEPT ![j] = "done"]

\* an exception with text t propagates out of the code at `where`
Raise(j, t, where) ==
  /\ exc' = [exc EXCEPT ![j] = [text |-> t, handler |-> Handler(app, where)]]
  /\ pc' = [pc EXCEPT ![j] = "fail_status"]

\* jobs[job_id]["status"] = "failed"
FailStatus(j) ==
  /\ pc[j] = "fail_status"
  /\ jobs' = [jobs EXCEPT ![j].status = "failed"]
  /\ pc' = [pc EXCEPT ![j] = "fail_message"]
  /\ UNCHANGED <<env, app, src, tgt, exc, pipeline, calls, raised, result, mixed>>
  /\ UNCHANGED synthVars
  /\ UNCHANGED readerVars
  /\ UNCHANGED libVars

\* jobs[job_id]["message"] = ...
FailMessage(j) ==
  /\ pc[j] = "fail_message"
  /\ jobs' = [jobs EXCEPT ![j].message = FailedMessage(exc[j].handler, exc[j].text)]
  /\ pc' = [pc EXCEPT ![j] = "done"]
  /\ UNCHANGED <<env, app, src, tgt, exc, pipeline, calls, raised, result, mixed>>
  /\ UNCHANGED synthVars
  /\ UNCHANGED readerVars
  /\ UNCHANGED libVars

\* ------------------------------------------------- worker: before process
\* IsSupported without the table lookup
IsSupportedAny(t) == TRUE

\* tgt_lang in SUPPORTED_LANGUAGES
IsSupported(t) == t \in SUPPORTED_LANGUAGES

\* run_pipeline_task: job lookup, output path, target-language validation
Validate(j) ==
  /\ app = "routes"
  /\ pc[j] = "start"
  /\ IF IsSupported(tgt[j])
       THEN /\ pc' = [pc EXCEPT ![j] = "construct"]
            /\ UNCHANGED exc
       ELSE Raise(j, "Target language not supported", "task")
  /\ UNCHANGED <<env, app, jobs, src, tgt, pipeline, calls, raised, result, mixed>>
  /\ UNCHANGED synthVars
  /\ UNCHANGED readerVars
  /\ UNCHANGED libVars

\* actual_src = None if src_lang == "auto" else src_lang
ActualSrc(s) == IF s = "auto" THEN "<None>" ELSE s

\* DubbingPipeline(src_lang=actual_src, tgt_lang=tgt_lang): loads the
\* Whisper model and the translator, which may fail
Construct(j) ==
  /\ pc[j] = IF app = "routes" THEN "construct" ELSE "start"
  /\ \/ /\ pipeline' = [pipeline EXCEPT ![j] =
                          [constructed |-> TRUE, src_lang |-> ActualSrc(src[j])]]
        /\ pc' = [pc EXCEPT ![j] = "progress20"]
        /\ UNCHANGED exc
     \/ /\ env.faults
        /\ Raise(j, "model load failed", "task")
        /\ UNCHANGED pipeline
  /\ UNCHANGED <<env, app, jobs, src, tgt, calls, raised, result, mixed>>
  /\ UNCHANGED synthVars
  /\ UNCHANGED readerVars
  /\ UNCHANGED libVars

\* job["progress"] = 20
SetProgress20(j) ==
  /\ pc[j] = "progress20"
  /\ jobs' = [jobs EXCEPT ![j].progress = 20]
  /\ pc' = [pc EXCEPT ![j] = "msg_transcribing"]
  /\ UNCHANGED <<env, app, src, tgt, exc, pipeline, calls, raised, result, mixed>>
  /\ UNCHANGED synthVars
  /\ UNCHANGED readerVars
  /\ UNCHANGED libVars

\* job["message"] = "Transcribing & Diarizing..."
SetMsgTranscribing(j) ==
  /\ pc[j] = "msg_transcribing"
  /\ jobs' = [jobs EXCEPT ![j].message = Msg("Transcribing & Diarizing...", "")]
  /\ pc' = [pc EXCEPT ![j] = "transcribe"]
  /\ UNCHANGED <<env, app, src, tgt, exc, pipeline, calls, raised, result, mixed>>
  /\ UNCHANGED synthVars
  /\ UNCHANGED readerVars
  /\ UNCHANGED libVars

\* ------------------------------------------------ DubbingPipeline.process
\* the text of the exception a failing stage raises
StageError(s) ==
  CASE s = "transcribe" -> "transcription failed"
    [] s = "diarize" -> "diarization failed"
    [] s = "extract" -> "reference extraction failed"
    [] s = "translate" -> "translation failed"
    [] s = "synthesize" -> "synthesis failed"
    [] OTHER -> "mixing failed"

\* stage s of job j is invoked
Invoke(j, s) == calls' = [calls EXCEPT ![j] = Append(@, s)]

\* stage s of job j raises: the exception leaves process()
StageRaises(j, s) ==
  /\ env.faults
  /\ raised' = [raised EXCEPT ![j] = s]
  /\ Raise(j, StageError(s), "process")

\* self.transcriber.transcribe_audio(...), then the auto-detected language
\* replaces a missing src_lang
Transcribe(j) ==
  /\ pc[j] = "transcribe"
  /\ Invoke(j, "transcribe")
  /\ \/ /\ \E n \in 0..MaxSegs : \E txt \in [1..n -> BOOLEAN] :
             /\ env.faults \/ (n > 0 /\ \A i \in 1..n : txt[i])
             /\ segs' = [segs EXCEPT ![j] = [i \in 1..n |-> NewSeg(txt[i])]]
        /\ pipeline' = [pipeline EXCEPT ![j].src_lang =
                          IF @ = "<None>" THEN "en" ELSE @]
        /\ pc' = [pc EXCEPT ![j] = "diarize"]
        /\ UNCHANGED <<exc, raised>>
     \/ /\ StageRaises(j, "transcribe")
        /\ UNCHANGED <<segs, pipeline>>
  /\ UNCHANGED <<env, app, jobs, src, tgt, result, mixed>>
  /\ UNCHANGED <<batchIn, ref_map, idx, model, lastCall, fs>>
  /\ UNCHANGED readerVars
  /\ UNCHANGED libVars

\* SpeakerDiarizer.diarize: every segment gets speaker 'S1'
Diarize(j) ==
  /\ pc[j] = "diarize"
  /\ Invoke(j, "diarize")
  /\ \/ /\ segs' = [segs EXCEPT ![j] =
                      [i \in 1..Len(@) |-> [@[i] EXCEPT !.speaker = "S1"]]]
        /\ pc' = [pc EXCEPT ![j] = "extract"]
        /\ UNCHANGED <<exc, raised>>
     \/ /\ StageRaises(j, "diarize")
        /\ UNCHANGED segs
  /\ UNCHANGED <<env, app, jobs, src, tgt, pipeline, result, mixed>>
  /\ UNCHANGED <<batchIn, ref_map, idx, model, lastCall, fs>>
  /\ UNCHANGED readerVars
  /\ UNCHANGED libVars

\* SpeakerDiarizer.extract_speaker_references: {"S1": audio_path}, the
\* job's own input file
ExtractRefs(j) ==
  /\ pc[j] = "extract"
  /\ Invoke(j, "extract")
  /\ \/ /\ ref_map' = [ref_map EXCEPT ![j] = {"S1"}]
        /\ pc' = [pc EXCEPT ![j] = "translate"]
        /\ UNCHANGED <<exc, raised>>
     \/ /\ StageRaises(j, "extract")
        /\ UNCHANGED ref_map
  /\ UNCHANGED <<env, app, jobs, src, tgt, pipeline, result, mixed>>
  /\ UNCHANGED <<segs, batchIn, idx, model, lastCall, fs>>
  /\ UNCHANGED readerVars
  /\ UNCHANGED libVars

\* Translator.translate_text on one segment text: blank text gives "",
\* anything else a translation (or the text itself when src == tgt)
TranslateText(t) == IF t THEN "text" ELSE "empty"

\* Translator.translate_segments: a copy of every segment with
\* original_text / translated_text added
TranslateSegments(ss) ==
  [i \in 1..Len(ss) |-> [ss[i] EXCEPT !.translated = TranslateText(ss[i].text)]]

Translate(j) ==
  /\ pc[j] = "translate"
  /\ Invoke(j, "translate")
  /\ \/ /\ segs' = [segs EXCEPT ![j] = TranslateSegments(@)]
        /\ pc' = [pc EXCEPT ![j] = "synth"]
        /\ UNCHANGED <<exc, raised>>
     \/ /\ StageRaises(j, "translate")
        /\ UNCHANGED segs
  /\ UNCHANGED <<env, app, jobs, src, tgt, pipeline, result, mixed>>
  /\ UNCHANGED <<batchIn, ref_map, idx, model, lastCall, fs>>
  /\ UNCHANGED readerVars
  /\ UNCHANGED libVars

\* ------------------------------------------------- VoiceCloner (cloning.py)
TierOutcomes == {"file", "empty", "raise"}
TierCall(t, o) == [tier |-> t, outcome |-> o]

\* _load_model: keeps a loaded model, otherwise tries to load it (ok)
LoadModel(m, ok) == m \/ ok

\* CloneVoice without the return after a successful XTTS call
CloneVoiceNoReturn(loaded, oA, oB, oC) ==
  LET a == IF loaded THEN <<TierCall("xtts", oA)>> ELSE <<>>
      b == a \o <<TierCall("edge", oB)>>
      c == b \o <<TierCall("gtts", oC)>>
  IN  IF oB = "file" THEN [ret |-> "path", tiers |-> b]
      ELSE IF oC # "raise" THEN [ret |-> "path", tiers |-> c]
      ELSE [ret |-> "None", tiers |-> c]

\* clone_voice: the engines it invokes, in order, and what it returns.
\* oA, oB, oC: what XTTS, EdgeTTS and gTTS do when invoked ("file": a
\* non-empty output file, "empty": returns with an empty output file,
\* "raise": an exception)
CloneVoice(loaded, oA, oB, oC) ==
  LET a == IF loaded THEN <<TierCall("xtts", oA)>> ELSE <<>>
      b == a \o <<TierCall("edge", oB)>>
      c == b \o <<TierCall("gtts", oC)>>
  IN  IF loaded /\ oA # "raise" THEN [ret |-> "path", tiers |-> a]
      ELSE IF oB = "file" THEN [ret |-> "path", tiers |-> b]
      ELSE IF oC # "raise" THEN [ret |-> "path", tiers |-> c]
      ELSE [ret |-> "None", tiers |-> c]

\* the output file after the engine calls of one clone_voice by caller c
RECURSIVE FileAfter(_, _, _)
FileAfter(old, tiers, c) ==
  IF tiers = <<>> THEN old
  ELSE LET o == Head(tiers).outcome
           now == IF o = "file" THEN File("audio", c)
                  ELSE IF o = "empty" THEN File("empty", c)
                  ELSE old
       IN  FileAfter(now, Tail(tiers), c)

\* seg.get('speaker', 'default')
SpeakerOf(seg) == IF seg.speaker = "absent" THEN "default" ELSE seg.speaker

\* seg.get('translated_text', seg.get('text', '')) is not empty
SegText(seg) == IF seg.translated # "absent" THEN seg.translated = "text" ELSE seg.text

DirOf(c) == IF c = Script THEN ScriptDir ELSE SynDir

\* os.path.join(output_dir, f"seg_{i:03d}_{speaker_id}.wav")
OutPath(c, i, spk) == Path(DirOf(c), i, spk)

\* batch_clone_voices is entered: ensure_dir(output_dir)
SynthBegin(j) ==
  /\ pc[j] = "synth"
  /\ Invoke(j, "synthesize")
  /\ \/ /\ batchIn' = [batchIn EXCEPT ![j] = segs[j]]
        /\ idx' = [idx EXCEPT ![j] = 0]
        /\ pc' = [pc EXCEPT ![j] = "clone"]
        /\ UNCHANGED <<exc, raised>>
     \/ /\ StageRaises(j, "synthesize")
        /\ UNCHANGED <<batchIn, idx>>
  /\ UNCHANGED <<env, app, jobs, src, tgt, pipeline, result, mixed>>
  /\ UNCHANGED <<segs, ref_map, model, lastCall, fs>>
  /\ UNCHANGED readerVars
  /\ UNCHANGED libVars

\* one iteration of the loop of batch_clone_voices, for caller c
CloneSegment(c) ==
  /\ pc[c] = "clone"
  /\ idx[c] < Len(segs[c])
  /\ LET i == idx[c]
         seg == segs[c][i + 1]
         spk == SpeakerOf(seg)
     IN  IF ~SegText(seg) \/ spk \notin ref_map[c]
           THEN UNCHANGED <<segs, model, lastCall, fs>>
           ELSE \E ok \in BOOLEAN, oA \in TierOutcomes, oB \in TierOutcomes,
                   oC \in TierOutcomes :
                  LET loaded == LoadModel(model[c], ok)
                      r == CloneVoice(loaded, oA, oB, oC)
                      out == OutPath(c, i, spk)
                  IN  /\ env.faults \/ (ok /\ oA = "file")
                      \* a model that is loaded is not loaded again, and an
                      \* engine that is not invoked has no outcome to choose
                      /\ model[c] => ok
                      /\ ~loaded => oA = "file"
                      /\ (loaded /\ oA # "raise") => (oB = "file" /\ oC = "file")
                      /\ oB = "file" => oC = "file"
                      /\ model' = [model EXCEPT ![c] = loaded]
                      /\ lastCall' = [lastCall EXCEPT ![c] =
                                        [seg |-> i + 1, tiers |-> r.tiers, ret |-> r.ret]]
                      /\ fs' = [fs EXCEPT ![out] = FileAfter(@, r.tiers, c)]
                      /\ segs' = [segs EXCEPT ![c][i + 1] =
                           [@ EXCEPT !.audio_path = IF r.ret = "path" THEN out ELSE None,
                                     !.audio_synthesized =
                                        IF r.ret = "path" THEN "true" ELSE "false"]]
  /\ idx' = [idx EXCEPT ![c] = @ + 1]
  /\ UNCHANGED <<env, app, pc, batchIn, ref_map>>
  /\ UNCHANGED jobVars
  /\ UNCHANGED readerVars
  /\ UNCHANGED libVars

\* batch_clone_voices returns the segment list
BatchReturn(c) ==
  /\ pc[c] = "clone"
  /\ idx[c] = Len(segs[c])
  /\ pc' = [pc EXCEPT ![c] = IF c = Script THEN "batch_done" ELSE "count"]
  /\ UNCHANGED <<env, app>>
  /\ UNCHANGED jobVars
  /\ UNCHANGED synthVars
  /\ UNCHANGED readerVars
  /\ UNCHANGED libVars

\* SynthesizedCount counting every returned segment
SynthesizedCountAll(ss) == Len(ss)

\* sum(1 for seg in synthesized if seg.get('audio_path'))
SynthesizedCount(ss) == Cardinality({i \in 1..Len(ss) : IsPath(ss[i].audio_path)})

\* process(): the zero-synthesized check after batch_clone_voices (the
\* metadata block that follows it catches its own exceptions)
CountCheck(j) ==
  /\ pc[j] = "count"
  /\ IF SynthesizedCount(segs[j]) = 0
       THEN Raise(j, "Synthesis failed for all segments. Final output would be silent.",
                  "process")
       ELSE /\ pc' = [pc EXCEPT ![j] = "mix"]
            /\ UNCHANGED exc
  /\ UNCHANGED <<env, app, jobs, src, tgt, pipeline, calls, raised, result, mixed>>
  /\ UNCHANGED synthVars
  /\ UNCHANGED readerVars
  /\ UNCHANGED libVars

\* ---------------------------------------------- AudioMixer (processor/mixer.py)
HasAudio(seg) == IsPath(seg.audio_path)

\* the files mix_audio loads, in segment order: `if not seg.get('audio_path'): continue`
PlacedPaths(ss) ==
  LET placed == SelectSeq(ss, HasAudio)
  IN  [k \in 1..Len(placed) |-> placed[k].audio_path]

\* AudioSegment.from_file succeeds on every placed file
AllReadable(f, ps) == \A k \in 1..Len(ps) : f[ps[k]].kind = "audio"

\* self.mixer.mix_audio(synthesized, output_path), then process() returns
\* {"output_path": output_file, "metadata": ...}
Mix(j) ==
  /\ pc[j] = "mix"
  /\ Invoke(j, "mix")
  /\ LET ps == PlacedPaths(segs[j])
     IN  \/ /\ AllReadable(fs, ps)
            /\ mixed' = [mixed EXCEPT ![j] = [k \in 1..Len(ps) |-> fs[ps[k]].owner]]
            /\ fs' = [fs EXCEPT ![OutputPath(j)] = File("audio", j)]
            /\ result' = [result EXCEPT ![j] =
                            [kind |-> "dict", output_path |-> OutputPath(j)]]
            /\ pc' = [pc EXCEPT ![j] = IF app = "routes" THEN "check" ELSE "set_status"]
            /\ UNCHANGED <<exc, raised>>
         \/ /\ StageRaises(j, "mix")
            /\ UNCHANGED <<mixed, fs, result>>
  /\ UNCHANGED <<env, app, jobs, src, tgt, pipeline>>
  /\ UNCHANGED <<segs, batchIn, ref_map, idx, model, lastCall>>
  /\ UNCHANGED readerVars
  /\ UNCHANGED libVars

\* ------------------------------------------------- worker: after process
\* `if not result or not os.path.exists(result)`: os.path.exists raises
\* TypeError on a dict
ResultCheck(r, f) ==
  IF r.kind = "unset" THEN "RuntimeError"
  ELSE IF r.kind = "dict" THEN "TypeError"
  ELSE IF f[r.output_path].kind = "missing" THEN "RuntimeError"
  ELSE "ok"

CheckResult(j) ==
  /\ app = "routes"
  /\ pc[j] = "check"
  /\ LET chk == ResultCheck(result[j], fs)
     IN  IF chk = "ok"
           THEN /\ pc' = [pc EXCEPT ![j] = "set_status"]
                /\ UNCHANGED exc
           ELSE IF chk = "TypeError"
             THEN Raise(j, "stat: path should be string, bytes, os.PathLike or integer, not dict",
                        "process")
             ELSE Raise(j, "Pipeline completed but output file not found", "process")
  /\ UNCHANGED <<env, app, jobs, src, tgt, pipeline, calls, raised, result, mixed>>
  /\ UNCHANGED synthVars
  /\ UNCHANGED readerVars
  /\ UNCHANGED libVars

\* job["status"] = "completed"
SetCompleted(j) ==
  /\ pc[j] = "set_status"
  /\ jobs' = [jobs EXCEPT ![j].status = "completed"]
  /\ pc' = [pc EXCEPT ![j] = "set_progress"]
  /\ UNCHANGED <<env, app, src, tgt, exc, pipeline, calls, raised, result, mixed>>
  /\ UNCHANGED synthVars
  /\ UNCHANGED readerVars
  /\ UNCHANGED libVars

\* job["progress"] = 100
SetProgress100(j) ==
  /\ pc[j] = "set_progress"
  /\ jobs' = [jobs EXCEPT ![j].progress = 100]
  /\ pc' = [pc EXCEPT ![j] = "set_message"]
  /\ UNCHANGED <<env, app, src, tgt, exc, pipeline, calls, raised, result, mixed>>
  /\ UNCHANGED synthVars
  /\ UNCHANGED readerVars
  /\ UNCHANGED libVars

\* job["message"] = "Dubbing finished..."
SetMsgFinished(j) ==
  /\ pc[j] = "set_message"
  /\ jobs' = [jobs EXCEPT ![j].message = Msg("Dubbing finished", "")]
  /\ pc' = [pc EXCEPT ![j] = "set_output"]
  /\ UNCHANGED <<env, app, src, tgt, exc, pipeline, calls, raised, result, mixed>>
  /\ UNCHANGED synthVars
  /\ UNCHANGED readerVars
  /\ UNCHANGED libVars

\* job["output_file"] = result   (main.py: = output_path)
SetOutputFile(j) ==
  /\ pc[j] = "set_output"
  /\ jobs' = [jobs EXCEPT ![j].output_file =
                IF app = "routes" THEN result[j].output_path ELSE OutputPath(j)]
  /\ pc' = [pc EXCEPT ![j] = "done"]
  /\ UNCHANGED <<env, app, src, tgt, exc, pipeline, calls, raised, result, mixed>>
  /\ UNCHANGED synthVars
  /\ UNCHANGED readerVars
  /\ UNCHANGED libVars

\* ----------------------------------------------------------------- readers
\* GET /status/{job_id}
GetStatus(j) ==
  /\ jobs[j].status # "absent"
  /\ response' = [req |-> "status", job |-> j, code |-> 200, body |-> jobs[j]]
  /\ UNCHANGED <<env, app, pc>>
  /\ UNCHANGED jobVars
  /\ UNCHANGED synthVars
  /\ UNCHANGED libVars

\* GET /download/{job_id}: 400 until the status reads "completed", then
\* FileResponse(job["output_file"]); a missing key is a KeyError (500)
DownloadCode(job) ==
  IF job.status # "completed" THEN 400
  ELSE IF job.output_file = NoKey THEN 500
  ELSE 200

DownloadResult(j) ==
  /\ jobs[j].status # "absent"
  /\ response' = [req |-> "download", job |-> j, code |-> DownloadCode(jobs[j]),
                  body |-> NoJob]
  /\ UNCHANGED <<env, app, pc>>
  /\ UNCHANGED jobVars
  /\ UNCHANGED synthVars
  /\ UNCHANGED libVars

Next ==
  \E j \in Jobs :
    \/ Submit(j)
    \/ Validate(j)
    \/ Construct(j)
    \/ SetProgress20(j)
    \/ SetMsgTranscribing(j)
    \/ Transcribe(j)
    \/ Diarize(j)
    \/ ExtractRefs(j)
    \/ Translate(j)
    \/ SynthBegin(j)
    \/ CloneSegment(j)
    \/ BatchReturn(j)
    \/ CountCheck(j)
    \/ Mix(j)
    \/ CheckResult(j)
    \/ SetCompleted(j)
    \/ SetProgress100(j)
    \/ SetMsgFinished(j)
    \/ SetOutputFile(j)
    \/ FailStatus(j)
    \/ FailMessage(j)


Spec == Init /\ [][Next]_vars

\* NumJobs concurrent jobs and concurrent readers, collaborators that work
InitConc ==
  /\ env = [jobs |-> NumJobs, faults |-> FALSE]
  /\ app \in {"routes", "main"}
  /\ Idle
  /\ LibIdle

NextConc ==
  \/ Next
  \/ \E j \in Jobs : GetStatus(j) \/ DownloadResult(j)

SpecConc == InitConc /\ [][NextConc]_vars

\* batch_clone_voices called on its own (scripts/verify_pipeline.py), on any
\* segment list and reference map
InputSegs ==
  {[NewSeg(tx.text) EXCEPT !.speaker = sp, !.translated = tx.translated] :
     sp \in Speakers \cup {"absent"},
     tx \in {[text |-> TRUE, translated |-> "absent"], [text |-> FALSE, translated |-> "absent"],
             [text |-> TRUE, translated |-> "text"], [text |-> TRUE, translated |-> "empty"]}}

InitBatch ==
  /\ env = [jobs |-> 0, faults |-> TRUE]
  /\ app = "routes"
  /\ jobs = [j \in Jobs |-> NoJob]
  /\ pc = [c \in Callers |-> IF c = Script THEN "clone" ELSE "idle"]
  /\ src = [j \in Jobs |-> ""]
  /\ tgt = [j \in Jobs |-> ""]
  /\ exc = [j \in Jobs |-> NoExc]
  /\ pipeline = [j \in Jobs |-> [constructed |-> FALSE, src_lang |-> ""]]
  /\ calls = [j \in Jobs |-> <<>>]
  /\ raised = [j \in Jobs |-> "none"]
  /\ result = [j \in Jobs |-> Unset]
  /\ \E n \in 0..MaxSegs : \E ss \in [1..n -> InputSegs] :
       /\ segs = [c \in Callers |-> IF c = Script THEN ss ELSE <<>>]
       /\ batchIn = segs
  /\ \E rm \in SUBSET (Speakers \cup {"default"}) :
       ref_map = [c \in Callers |-> IF c = Script THEN rm ELSE {}]
  /\ idx = [c \in Callers |-> 0]
  /\ model = [c \in Callers |-> FALSE]
  /\ fs = [p \in FsPaths |-> Missing]
  /\ mixed = [j \in Jobs |-> <<>>]
  /\ lastCall = [c \in Callers |-> NoCall]
  /\ response = NoResponse
  /\ LibIdle

NextBatch == CloneSegment(Script) \/ BatchReturn(Script)

SpecBatch == InitBatch /\ [][NextBatch]_vars

\* ====================================================== library functions
\* The functions below are also called on their own; each gets a
\* specification whose initial states are the calls with arguments drawn
\* from small sets. Times the code holds as float seconds are integers in
\* microseconds here; pydub lengths are integers in milliseconds.
progVars == <<env, app, jobs, pc, src, tgt, exc, pipeline, calls, raised, result,
              segs, batchIn, ref_map, idx, model, lastCall, fs, mixed, response>>

\* no job and no batch is running
Quiet == env = [jobs |-> 0, faults |-> FALSE] /\ app = "routes" /\ Idle

At(name, at) == [name |-> name, at |-> at]

\* int(t * 1000) for t >= 0 seconds
ToMs(t) == t \div 1000

Max(a, b) == IF a >= b THEN a ELSE b
Min(a, b) == IF a <= b THEN a ELSE b

\* ------------------------- AudioMixer.mix_audio (processor/mixer.py)
MaxMixSegs == 3

\* segment start times (s): 0, 0.0305, 0.1
MixStarts == {0, 30500, 100000}
\* what a segment carries: no audio_path, an audio_path whose file is gone,
\* or an audio_path to a clip of `len` ms
MixClips == {[audio |-> "absent", len |-> 0], [audio |-> "missing", len |-> 0],
             [audio |-> "file", len |-> 40], [audio |-> "file", len |-> 120]}
\* id: the position of the segment in the caller's list
MixSeg(id, start, clip) == [id |-> id, start |-> start, audio |-> clip.audio, len |-> clip.len]

\* list.sort(key=lambda x: x['start']): stable
RECURSIVE InsertByStart(_, _)
InsertByStart(sorted, seg) ==
  IF sorted = <<>> THEN <<seg>>
  ELSE IF sorted[Len(sorted)].start <= seg.start THEN Append(sorted, seg)
  ELSE Append(InsertByStart(SubSeq(sorted, 1, Len(sorted) - 1), seg), sorted[Len(sorted)])

RECURSIVE SortByStart(_)
SortByStart(ss) ==
  IF ss = <<>> THEN <<>>
  ELSE InsertByStart(SortByStart(SubSeq(ss, 1, Len(ss) - 1)), ss[Len(ss)])

\* MinAllowedStart without the buffer and the cursor: the segment goes to
\* its original start whatever the master holds
MinAllowedStartNone(i, master) == 0

\* min_allowed_start_ms: len(master) + 50, or 0 when i == 0
MinAllowedStart(i, master) == IF i = 0 THEN 0 ELSE master + 50

\* target_start_ms = max(original_start_ms, min_allowed_start_ms)
TargetStart(seg, i, master) == Max(ToMs(seg.start), MinAllowedStart(i, master))

\* AppendSilence that never inserts silence
AppendSilenceNone(master, target_start_ms) == master

\* master += AudioSegment.silent(duration=silence_gap_ms) if silence_gap_ms > 0
AppendSilence(master, target_start_ms) ==
  IF target_start_ms - master > 0 THEN master + (target_start_ms - master) ELSE master

InitMix ==
  /\ Quiet
  /\ fn = At("mix_audio", "sort")
  /\ \E n \in 0..MaxMixSegs : \E st \in [1..n -> MixStarts] : \E cl \in [1..n -> MixClips] :
       args = [segments |-> [k \in 1..n |-> MixSeg(k, st[k], cl[k])]]
  /\ locals = NoArgs
  /\ ret = NoArgs

\* `if not segments: return None`, segments.sort(...), master = empty
MixSort ==
  /\ fn = At("mix_audio", "sort")
  /\ IF args.segments = <<>>
       THEN /\ fn' = At("mix_audio", "returned")
            /\ ret' = [path |-> "None", master |-> 0]
            /\ UNCHANGED locals
       ELSE /\ fn' = At("mix_audio", "loop")
            /\ locals' = [segments |-> SortByStart(args.segments), i |-> 0,
                          master |-> 0, placed |-> <<>>]
            /\ UNCHANGED ret
  /\ UNCHANGED args
  /\ UNCHANGED progVars

\* one iteration of `for i, seg in enumerate(segments)`; placed records
\* where each clip went: target_start_ms, the master length before the
\* silence (cursor) and after the clip (after)
MixSegment ==
  /\ fn = At("mix_audio", "loop")
  /\ locals.i < Len(locals.segments)
  /\ LET i == locals.i
         seg == locals.segments[i + 1]
         target_start_ms == TargetStart(seg, i, locals.master)
         at == AppendSilence(locals.master, target_start_ms)
     IN  IF seg.audio = "absent"
           THEN /\ locals' = [locals EXCEPT !.i = i + 1]
                /\ UNCHANGED fn
           ELSE IF seg.audio = "missing"
             THEN /\ fn' = At("mix_audio", "raised")
                  /\ UNCHANGED locals
             ELSE /\ locals' = [locals EXCEPT
                       !.i = i + 1,
                       !.master = at + seg.len,
                       !.placed = Append(@, [id |-> seg.id, i |-> i,
                                             original_start_ms |-> ToMs(seg.start),
                                             target_start_ms |-> target_start_ms,
                                             cursor |-> locals.master,
                                             at |-> at, len |-> seg.len,
                                             after |-> at + seg.len])]
                  /\ UNCHANGED fn
  /\ UNCHANGED <<args, ret>>
  /\ UNCHANGED progVars

\* master.export(output_path, format='wav'); return output_path
MixExport ==
  /\ fn = At("mix_audio", "loop")
  /\ locals.i = Len(locals.segments)
  /\ fn' = At("mix_audio", "returned")
  /\ ret' = [path |-> "output_path", master |-> locals.master]
  /\ UNCHANGED <<args, locals>>
  /\ UNCHANGED progVars

NextMix == MixSort \/ MixSegment \/ MixExport

SpecMix == InitMix /\ [][NextMix]_vars

\* ------------------------------------- AudioMixer.mix_audio (audio_mixer.py)
MaxSlotSegs == 2

\* a source file: none given (len 0), or a file of `len` ms
NoFile == [given |-> FALSE, len |-> 0]
AudioFile(n) == [given |-> TRUE, len |-> n]
Originals == {NoFile, AudioFile(150), AudioFile(500)}

\* segments {start, end, audio_path}: start 0 or 0.1 s, a slot of 0.05 s or
\* 0.2005 s, no audio_path or a clip of 40 or 300 ms
SlotSegs ==
  {[start |-> s, end |-> s + d, audio |-> c.audio, len |-> c.len] :
     s \in {0, 100000}, d \in {50000, 200500},
     c \in {[audio |-> "absent", len |-> 0], [audio |-> "file", len |-> 40],
            [audio |-> "file", len |-> 300]}}

\* max(seg['end'] for seg in segments)
RECURSIVE MaxEnd(_)
MaxEnd(ss) == IF Len(ss) = 1 THEN ss[1].end ELSE Max(ss[1].end, MaxEnd(Tail(ss)))

\* total_duration (s): len(original_audio) / 1000 when mix_audio got a
\* readable original_audio_path, else the maximum end, else 1.0
TotalDuration(original, segments) ==
  IF original.given THEN original.len * 1000
  ELSE IF segments # <<>> THEN MaxEnd(segments) ELSE 1000000

\* create_silence: int(duration_seconds * 1000) ms
CreateSilence(duration_seconds) == ToMs(duration_seconds)

\* the length of segment_audio after the trim to, or the padding up to,
\* allocated_duration_ms
Fitted(seg) ==
  LET allocated_duration_ms == ToMs(seg.end - seg.start)
  IN  IF seg.len > allocated_duration_ms THEN allocated_duration_ms
      ELSE seg.len + ToMs((allocated_duration_ms - seg.len) * 1000)

\* output.overlay(segment_audio, position): the length of the result
Overlay(output, segment_audio, position) == output

\* _add_background: the background looped, cut to len(foreground), then
\* overlaid with the foreground; the foreground itself on any exception
AddBackground(foreground, background) ==
  IF background = 0 THEN foreground
  ELSE Overlay(Min(background * ((foreground \div background) + 1), foreground),
               foreground, 0)

InitSlot ==
  /\ Quiet
  /\ \E entry \in {"mix_dubbed_audio", "mix_audio"} :
     \E n \in 0..MaxSlotSegs : \E ss \in [1..n -> SlotSegs] :
     \E orig \in Originals : \E bg \in BOOLEAN :
       /\ entry = "mix_audio" => ~bg
       /\ fn = At(entry, "call")
       /\ args = [segments |-> ss, original_audio_path |-> orig, preserve_background |-> bg]
  /\ locals = NoArgs
  /\ ret = NoArgs

\* mix_dubbed_audio: extract the background when asked to, then
\* mixer.mix_audio(segments, output_path, background_path)
SlotDubbed ==
  /\ fn = At("mix_dubbed_audio", "call")
  /\ fn' = At("mix_dubbed_audio", "total")
  /\ locals' = [background_path |->
                  IF args.preserve_background /\ args.original_audio_path.given
                    THEN AudioFile(CreateSilence(args.original_audio_path.len * 1000))
                    ELSE NoFile,
                original_audio_path |-> NoFile]
  /\ UNCHANGED <<args, ret>>
  /\ UNCHANGED progVars

\* mix_audio called directly: no background, the caller's original path
SlotDirect ==
  /\ fn = At("mix_audio", "call")
  /\ fn' = At("mix_audio", "total")
  /\ locals' = [background_path |-> NoFile,
                original_audio_path |-> args.original_audio_path]
  /\ UNCHANGED <<args, ret>>
  /\ UNCHANGED progVars

\* mix_audio: total_duration, then overlay_segments starts with silence
SlotTotal ==
  /\ fn.at = "total"
  /\ fn' = At(fn.name, "overlay")
  /\ LET total_duration == TotalDuration(locals.original_audio_path, args.segments)
     IN  locals' = [background_path |-> locals.background_path,
                    original_audio_path |-> locals.original_audio_path,
                    total_duration |-> total_duration,
                    output |-> CreateSilence(total_duration),
                    i |-> 0, overlaid |-> <<>>]
  /\ UNCHANGED <<args, ret>>
  /\ UNCHANGED progVars

\* overlay_segments: one iteration of the loop
SlotOverlay ==
  /\ fn.at = "overlay"
  /\ locals.i < Len(args.segments)
  /\ LET seg == args.segments[locals.i + 1]
     IN  IF seg.audio = "absent"
           THEN locals' = [locals EXCEPT !.i = @ + 1]
           ELSE locals' = [locals EXCEPT
                  !.i = @ + 1,
                  !.output = Overlay(@, Fitted(seg), ToMs(seg.start)),
                  !.overlaid = Append(@, [i |-> locals.i, len |-> Fitted(seg),
                                          start_ms |-> ToMs(seg.start)])]
  /\ UNCHANGED <<fn, args, ret>>
  /\ UNCHANGED progVars

\* mix_audio: the background is added, the track exported
SlotExport ==
  /\ fn.at = "overlay"
  /\ locals.i = Len(args.segments)
  /\ fn' = At(fn.name, "returned")
  /\ ret' = [path |-> "output_path",
             length |-> IF locals.background_path.given
                          THEN AddBackground(locals.output, locals.background_path.len)
                          ELSE locals.output]
  /\ UNCHANGED <<args, locals>>
  /\ UNCHANGED progVars

NextSlot == SlotDubbed \/ SlotDirect \/ SlotTotal \/ SlotOverlay \/ SlotExport

SpecSlot == InitSlot /\ [][NextSlot]_vars

\* ------------------------- VoiceSynthesizer.align_timing (voice_synthesis.py)
\* a speed factor, the quotient n / d of two positive integers in lowest
\* terms
RECURSIVE GCD(_, _)
GCD(a, b) == IF b = 0 THEN a ELSE GCD(b, a % b)
Rat(n, d) == [num |-> n \div GCD(n, d), den |-> d \div GCD(n, d)]
RatLE(a, b) == a.num * b.den <= b.num * a.den

\* config.PROSODY_SETTINGS['speed_range'] = (0.8, 1.2)
SPEED_RANGE == [min_speed |-> Rat(8, 10), max_speed |-> Rat(12, 10)]

\* abs(current_duration - target_duration) < 0.1, in microseconds
WithinTolerance(current_duration, target_duration) ==
  Max(current_duration - target_duration, target_duration - current_duration) < 100000

\* Clamp without the limits
ClampNone(f) == f

\* max(min_speed, min(max_speed, speed_factor))
Clamp(f) ==
  LET upper == IF RatLE(f, SPEED_RANGE.max_speed) THEN f ELSE SPEED_RANGE.max_speed
  IN  IF RatLE(SPEED_RANGE.min_speed, upper) THEN upper ELSE SPEED_RANGE.min_speed

\* the calls in the model: a clip of 170 ms, 1 s, 2.45 s or 3 s, a target
\* of 0.05 s, 2 s, 2.5 s or 2.5005 s, the clip's frame rate, whether
\* AudioSegment.from_file and pydub's speedup work on it
AlignCalls ==
  [clip : {170, 1000, 2450, 3000}, target_duration : {50000, 2000000, 2500000, 2500500},
   frame_rate : {22050, 24000}, loads : BOOLEAN, speeds : BOOLEAN]

InitAlign ==
  /\ Quiet
  /\ fn = At("align_timing", "load")
  /\ args \in AlignCalls
  /\ locals = NoArgs
  /\ ret = NoArgs

\* the clip align_timing leaves at output_path: its length in ms, the
\* speed factor applied to it, whether it was padded or trimmed
Aligned(n, f, fitted) == [path |-> "output_path", len |-> n, speed_factor |-> f,
                          fitted |-> fitted]

\* load the clip; a clip within the tolerance is exported as it is
AlignLoad ==
  /\ fn = At("align_timing", "load")
  /\ IF ~args.loads
       THEN fn' = At("align_timing", "except") /\ UNCHANGED <<locals, ret>>
       ELSE LET current_duration == args.clip * 1000
            IN  IF WithinTolerance(current_duration, args.target_duration)
                  THEN /\ fn' = At("align_timing", "returned")
                       /\ ret' = Aligned(args.clip, Rat(1, 1), FALSE)
                       /\ UNCHANGED locals
                  ELSE /\ fn' = At("align_timing", "speed")
                       /\ locals' = [audio |-> args.clip,
                                     current_duration |-> current_duration]
                       /\ UNCHANGED ret
  /\ UNCHANGED args
  /\ UNCHANGED progVars

\* the clamped speed factor, then speedup() or the frame-rate change
AlignSpeed ==
  /\ fn = At("align_timing", "speed")
  /\ LET speed_factor == Clamp(Rat(locals.current_duration, args.target_duration))
         new_sample_rate == (args.frame_rate * speed_factor.num) \div speed_factor.den
     IN  IF speed_factor.num > speed_factor.den
           THEN IF args.speeds
                  THEN /\ locals' = [audio |-> (locals.audio * speed_factor.den)
                                                 \div speed_factor.num,
                                     current_duration |-> locals.current_duration,
                                     speed_factor |-> speed_factor,
                                     rate |-> Rat(args.frame_rate, args.frame_rate)]
                       /\ fn' = At("align_timing", "fit")
                  ELSE /\ fn' = At("align_timing", "except")
                       /\ UNCHANGED locals
           ELSE /\ locals' = [audio |-> (locals.audio * args.frame_rate)
                                          \div new_sample_rate,
                              current_duration |-> locals.current_duration,
                              speed_factor |-> speed_factor,
                              rate |-> Rat(new_sample_rate, args.frame_rate)]
                /\ fn' = At("align_timing", "fit")
  /\ UNCHANGED <<args, ret>>
  /\ UNCHANGED progVars

\* pad with silence or trim to target_ms, export, return
AlignFit ==
  /\ fn = At("align_timing", "fit")
  /\ LET current_ms == locals.audio
         target_ms == ToMs(args.target_duration)
         audio == IF current_ms < target_ms THEN current_ms + (target_ms - current_ms)
                  ELSE IF current_ms > target_ms THEN Min(current_ms, target_ms)
                  ELSE current_ms
     IN  ret' = Aligned(audio, locals.speed_factor, current_ms # target_ms)
  /\ fn' = At("align_timing", "returned")
  /\ UNCHANGED <<args, locals>>
  /\ UNCHANGED progVars

\* except Exception: the original clip is returned
AlignExcept ==
  /\ fn = At("align_timing", "except")
  /\ fn' = At("align_timing", "returned")
  /\ ret' = Aligned(args.clip, Rat(1, 1), FALSE)
  /\ UNCHANGED <<args, locals>>
  /\ UNCHANGED progVars

NextAlign == AlignLoad \/ AlignSpeed \/ AlignFit \/ AlignExcept

SpecAlign == InitAlign /\ [][NextAlign]_vars

\* ------------------ segment alignment and merging (transcription.py,
\* speaker_diarization.py, utils.py, dubsmart/utils/helpers.py)
\* Segment times are in tenths of a second; a text is the sequence of its
\* pieces, <<>> for a blank text or a segment without a 'text' key.
Segment(spk, s, e, t) == [speaker |-> spk, start |-> s, end |-> e, text |-> t]

\* JoinText without the separating space
JoinTextNoSpace(v, a, b) ==
  IF v = "transcription" \/ (v \in {"helpers", "utils"} /\ a # <<>> /\ b # <<>>)
    THEN a \o b
    ELSE a

\* last['text'] += ' ' + seg['text']: always in transcription.py, when
\* both segments have a text in helpers.py and utils.py, never in
\* speaker_diarization.py
JoinText(v, a, b) ==
  IF v = "transcription" \/ (v \in {"helpers", "utils"} /\ a # <<>> /\ b # <<>>)
    THEN a \o <<" ">> \o b
    ELSE a

\* MergeStep that folds the segment into the last one and appends it too
MergeStepAppend(v, merged, seg, max_gap) ==
  LET last == merged[Len(merged)]
  IN  IF (v = "utils" \/ seg.speaker = last.speaker) /\ seg.start - last.end <= max_gap
        THEN Append([merged EXCEPT ![Len(merged)] =
                      [last EXCEPT !.end = IF v = "utils" THEN Max(last.end, seg.end)
                                           ELSE seg.end,
                                   !.text = JoinText(v, last.text, seg.text)]], seg)
        ELSE Append(merged, seg)

\* one iteration of the merge loop of variant v: the segment extends the
\* last merged segment (same speaker, except in utils.py, and a gap of at
\* most max_gap) or is appended as a copy
MergeStep(v, merged, seg, max_gap) ==
  LET last == merged[Len(merged)]
  IN  IF (v = "utils" \/ seg.speaker = last.speaker) /\ seg.start - last.end <= max_gap
        THEN [merged EXCEPT ![Len(merged)] =
                [last EXCEPT !.end = IF v = "utils" THEN Max(last.end, seg.end)
                                     ELSE seg.end,
                             !.text = JoinText(v, last.text, seg.text)]]
        ELSE Append(merged, seg)

RECURSIVE MergeFrom(_, _, _, _)
MergeFrom(v, merged, rest, max_gap) ==
  IF rest = <<>> THEN merged
  ELSE MergeFrom(v, MergeStep(v, merged, Head(rest), max_gap), Tail(rest), max_gap)

\* merge_consecutive_speaker_segments ("transcription"),
\* merge_consecutive_segments ("diarization"), merge_overlapping_segments
\* of helpers.py ("helpers") and of utils.py ("utils", which sorts first)
Merge(v, segments, max_gap) ==
  IF segments = <<>> THEN <<>>
  ELSE LET ss == IF v = "utils" THEN SortByStart(segments) ELSE segments
       IN  MergeFrom(v, <<ss[1]>>, Tail(ss), max_gap)

\* Better taking a later interval with the same overlap
BetterOrEqual(overlap, max_overlap) == overlap >= max_overlap

\* `if overlap > max_overlap`
Better(overlap, max_overlap) == overlap > max_overlap

Overlap(w, s) == Max(0, Min(w.end, s.end) - Max(w.start, s.start))

\* the loop over speaker_segments for one Whisper segment
RECURSIVE BestSpeaker(_, _, _, _)
BestSpeaker(w, speaker_segments, best_speaker, max_overlap) ==
  IF speaker_segments = <<>> THEN best_speaker
  ELSE LET sseg == Head(speaker_segments)
       IN  IF Better(Overlap(w, sseg), max_overlap)
             THEN BestSpeaker(w, Tail(speaker_segments), sseg.speaker, Overlap(w, sseg))
             ELSE BestSpeaker(w, Tail(speaker_segments), best_speaker, max_overlap)

HasText(w) == w.text # <<>>

\* AlignWithSpeakers that leaves a segment without overlap untagged
AlignWithSpeakersNoDefault(whisper_segments, speaker_segments) ==
  LET kept == SelectSeq(whisper_segments, HasText)
  IN  [k \in 1..Len(kept) |->
         Segment(BestSpeaker(kept[k], speaker_segments, "", 0),
                 kept[k].start, kept[k].end, kept[k].text)]

\* align_with_speakers: blank segments dropped, the others tagged
AlignWithSpeakers(whisper_segments, speaker_segments) ==
  LET kept == SelectSeq(whisper_segments, HasText)
  IN  [k \in 1..Len(kept) |->
         Segment(BestSpeaker(kept[k], speaker_segments, "S1", 0),
                 kept[k].start, kept[k].end, kept[k].text)]

MaxTurns == 2
MaxWhisper == 2

\* the tracks of a pyannote annotation, under the labels of the library
Turns == {Segment(label, iv[1], iv[2], <<>>) :
            label \in {"SPEAKER_00", "SPEAKER_01"},
            iv \in {<<0, 30>>, <<30, 50>>, <<10, 40>>}}

\* Whisper segments, in time order: text over 2-4 s and 0-2 s, a segment
\* of zero length at 3 s, a blank one
WhisperSegs == {Segment("", 20, 40, <<"a">>), Segment("", 0, 20, <<"b">>),
                Segment("", 30, 30, <<"c">>), Segment("", 10, 30, <<>>)}

InitSpeakers ==
  /\ Quiet
  /\ fn = At("transcribe_with_speaker_diarization", "diarize")
  /\ \E m \in 0..MaxTurns : \E tt \in [1..m -> Turns] :
     \E n \in 0..MaxWhisper : \E ww \in [1..n -> WhisperSegs] :
       /\ \A k \in 1..(m - 1) : tt[k].start <= tt[k + 1].start
       /\ \A k \in 1..(n - 1) : ww[k].start <= ww[k + 1].start
       /\ args = [turns |-> tt, whisper_segments |-> ww]
  /\ locals = NoArgs
  /\ ret = NoArgs

\* diarize_audio_file: itertracks yields the tracks in time order; the
\* labels are renamed S1, S2 in the order they first appear (two labels
\* here), the turns sorted by start, consecutive turns of a speaker merged
\* (max_gap 0.5 s)
DiarizeAudioFile ==
  /\ fn = At("transcribe_with_speaker_diarization", "diarize")
  /\ fn' = At(fn.name, "align")
  /\ LET segments == [k \in 1..Len(args.turns) |->
                        [args.turns[k] EXCEPT !.speaker =
                           IF @ = args.turns[1].speaker THEN "S1" ELSE "S2"]]
     IN  locals' = [speaker_segments |-> Merge("diarization", SortByStart(segments), 5)]
  /\ UNCHANGED <<args, ret>>
  /\ UNCHANGED progVars

\* transcribe_with_speaker_diarization: align_with_speakers
AlignSegments ==
  /\ fn = At("transcribe_with_speaker_diarization", "align")
  /\ fn' = At(fn.name, "merge")
  /\ locals' = [speaker_segments |-> locals.speaker_segments,
                aligned |-> AlignWithSpeakers(args.whisper_segments,
                                              locals.speaker_segments)]
  /\ UNCHANGED <<args, ret>>
  /\ UNCHANGED progVars

\* transcribe_with_speaker_diarization: merge_consecutive_speaker_segments
\* (max_gap 1.0 s), return
MergeAligned ==
  /\ fn = At("transcribe_with_speaker_diarization", "merge")
  /\ fn' = At(fn.name, "returned")
  /\ ret' = [aligned |-> Merge("transcription", locals.aligned, 10)]
  /\ UNCHANGED <<args, locals>>
  /\ UNCHANGED progVars

NextSpeakers == DiarizeAudioFile \/ AlignSegments \/ MergeAligned

SpecSpeakers == InitSpeakers /\ [][NextSpeakers]_vars

\* ---- a merge function applied to a segment list, then to its own result
MaxMergeSegs == 3

MergeSegs == {Segment(spk, iv[1], iv[2], <<iv[3]>>) :
                spk \in Speakers, iv \in {<<0, 10, "a">>, <<12, 20, "b">>,
                                          <<5, 50, "c">>, <<40, 60, "d">>}}

InitMerge ==
  /\ Quiet
  /\ \E v \in {"transcription", "diarization", "helpers", "utils"} :
       fn = At(v, "merge")
  /\ \E n \in 0..MaxMergeSegs : \E ss \in [1..n -> MergeSegs] : \E g \in {0, 2, 5, 10} :
       args = [segments |-> ss, max_gap |-> g]
  /\ locals = NoArgs
  /\ ret = NoArgs

MergeOnce ==
  /\ fn.at = "merge"
  /\ fn.name \in {"transcription", "diarization", "helpers", "utils"}
  /\ fn' = At(fn.name, "again")
  /\ locals' = [merged |-> Merge(fn.name, args.segments, args.max_gap)]
  /\ UNCHANGED <<args, ret>>
  /\ UNCHANGED progVars

MergeAgain ==
  /\ fn.at = "again"
  /\ fn' = At(fn.name, "returned")
  /\ ret' = [merged |-> Merge(fn.name, locals.merged, args.max_gap)]
  /\ UNCHANGED <<args, locals>>
  /\ UNCHANGED progVars

NextMerge == MergeOnce \/ MergeAgain

SpecMerge == InitMerge /\ [][NextMerge]_vars

\* ------------- translate_segments (dubsmart/modules/translation.py,
\* translation.py, translation_optimized.py) on a segment list
MaxTransSegs == 2

\* a segment before translation; "<absent>" marks a key not set
TransSegs ==
  {[speaker |-> spk, start |-> iv[1], end |-> iv[2], text |-> t,
    original_text |-> <<"<absent>">>, translated_text |-> <<"<absent>">>] :
     spk \in Speakers, iv \in {<<0, 10>>, <<12, 20>>}, t \in {<<>>, <<"a">>}}

\* translate_text / translate_batch: the translator's output for a text
\* ("" for a blank text)
TranslatedText(t) == IF t = <<>> THEN <<>> ELSE <<"tr">> \o t

\* translate_segments of v: "dubsmart" and "translation" return copies
\* with original_text and translated_text added, "translation_optimized"
\* (M2M100Translator) writes text and translated_text into the segments
TranslateSegmentsBy(v, segments) ==
  [k \in 1..Len(segments) |->
     IF v = "translation_optimized"
       THEN [segments[k] EXCEPT !.text = TranslatedText(segments[k].text),
                                !.translated_text = TranslatedText(segments[k].text)]
       ELSE [segments[k] EXCEPT !.original_text = segments[k].text,
                                !.translated_text = TranslatedText(segments[k].text)]]

InitTranslate ==
  /\ Quiet
  /\ \E v \in {"dubsmart", "translation", "translation_optimized"} :
       fn = At(v, "translate_segments")
  /\ \E n \in 0..MaxTransSegs : \E ss \in [1..n -> TransSegs] : args = [segments |-> ss]
  /\ locals = NoArgs
  /\ ret = NoArgs

TranslateCall ==
  /\ fn.at = "translate_segments"
  /\ fn' = At(fn.name, "returned")
  /\ ret' = [segments |-> TranslateSegmentsBy(fn.name, args.segments)]
  /\ UNCHANGED <<args, locals>>
  /\ UNCHANGED progVars

SpecTranslate == InitTranslate /\ [][TranslateCall]_vars

\* ------------------------------------------------ AudioDubber.dub_audio --
\* audio_dubbing.py: validation, translation, synthesis of every segment and
\* the final mix, inside one try / except Exception.  Times are tenths of a
\* second.

MaxDubSegs == 3

\* synthesize_segment with the configured engine 'coqui': XTTS, else gTTS,
\* else (gTTS raised too) one second of silence exported to output_path.
\* Every branch returns output_path.
SynthesizeOutcomes == {"coqui", "gtts", "silence"}

InitDub ==
    /\ Quiet
    /\ \E n \in 0..MaxDubSegs, d \in {"en", "hi", "fr"}, t \in {"en", "hi"} :
         /\ fn = At("dub_audio", "validate_languages")
         /\ args = [transcribed_segments |->
                        [i \in 1..n |-> Segment("S1", 10 * (i - 1), 10 * i, "text")],
                    detected_lang |-> d, target_language |-> t]
    /\ locals = [synthesized |-> <<>>]
    /\ ret = NoArgs

\* STEP 7: a ValueError of validate_languages is returned as a failed result.
DubValidate ==
    /\ fn = At("dub_audio", "validate_languages")
    /\ IF \/ args.detected_lang \notin {"en", "hi", "te", "es"}
          \/ args.detected_lang = args.target_language
       THEN /\ fn' = At("dub_audio", "returned")
            /\ ret' = [status |-> "failed", error |-> "ValueError"]
       ELSE /\ fn' = At("dub_audio", "synthesize_all_segments")
            /\ ret' = ret
    /\ UNCHANGED <<args, locals>>
    /\ UNCHANGED progVars

\* One turn of the loop of synthesize_all_segments: whatever the engines
\* did, the segment copy gets audio_file and joins the synthesized list.
DubSynthesize ==
    /\ fn = At("dub_audio", "synthesize_all_segments")
    /\ Len(locals.synthesized) < Len(args.transcribed_segments)
    /\ \E o \in SynthesizeOutcomes :
         LET i   == Len(locals.synthesized) + 1
             seg == args.transcribed_segments[i]
         IN  locals' = [locals EXCEPT !.synthesized =
                 Append(@, [speaker |-> seg.speaker, start |-> seg.start,
                            end |-> seg.end, text |-> seg.text,
                            audio_file |-> i, content |-> o])]
    /\ UNCHANGED <<fn, args, ret>>
    /\ UNCHANGED progVars

\* STEP 13-14: mix_dubbed_audio, then status 'success'; an exception of the
\* mixer reaches the except clause of dub_audio.
DubMix ==
    /\ fn = At("dub_audio", "synthesize_all_segments")
    /\ Len(locals.synthesized) = Len(args.transcribed_segments)
    /\ \E written \in BOOLEAN :
         ret' = IF written
                THEN [status |-> "success",
                      num_segments |-> Len(locals.synthesized)]
                ELSE [status |-> "failed", error |-> "Exception"]
    /\ fn' = At("dub_audio", "returned")
    /\ UNCHANGED <<args, locals>>
    /\ UNCHANGED progVars

SpecDub == InitDub /\ [][DubValidate \/ DubSynthesize \/ DubMix]_vars

\* -------------------------------------------- SpeakerDiarizer.diarize_audio --
\* speaker_diarization.py.  In the energy-based diarizer times are counted
\* in hops of 0.25 s: window i (from 1) starts at time i - 1.

MaxWindows == 9

\* the loop over zip(times, is_speech) and the final segment: a stretch of
\* speech becomes a segment of S1 when it is longer than 0.5 s
RECURSIVE SpeechSegments(_, _, _, _, _)
SpeechSegments(is_speech, i, segments, in_speech, start_time) ==
  IF i > Len(is_speech)
    THEN IF in_speech /\ Len(is_speech) > 0
           THEN Append(segments, Segment("S1", start_time, Len(is_speech) - 1, <<>>))
           ELSE segments
  ELSE LET time == i - 1
       IN  IF is_speech[i] /\ ~in_speech
             THEN SpeechSegments(is_speech, i + 1, segments, TRUE, time)
           ELSE IF ~is_speech[i] /\ in_speech
             THEN SpeechSegments(is_speech, i + 1,
                    IF time - start_time > 2
                      THEN Append(segments, Segment("S1", start_time, time, <<>>))
                      ELSE segments,
                    FALSE, start_time)
           ELSE SpeechSegments(is_speech, i + 1, segments, in_speech, start_time)

\* the speaker of a segment flips against its predecessor's after a pause
\* of more than 1 s; the list is updated in place from left to right
RECURSIVE Alternate(_, _)
Alternate(segments, i) ==
  IF i > Len(segments) THEN segments
  ELSE IF segments[i].start - segments[i - 1].end > 4
    THEN Alternate([segments EXCEPT ![i].speaker =
                      IF segments[i - 1].speaker = "S1" THEN "S2" ELSE "S1"], i + 1)
    ELSE Alternate(segments, i + 1)

DiarizeSimple(is_speech) ==
  LET segments == SpeechSegments(is_speech, 1, <<>>, FALSE, 0)
  IN  IF Len(segments) > 1 THEN Alternate(segments, 2) ELSE segments

InitDiarize ==
  /\ Quiet
  /\ fn = At("diarize_audio", "__init__")
  /\ \E u \in BOOLEAN, token \in BOOLEAN, readable \in BOOLEAN,
        p \in {"load_raises", "run_raises", "runs"},
        sp \in [1..MaxWindows -> BOOLEAN] \cup {<<>>} :
       args = [use_pyannote |-> u, token |-> token, pyannote |-> p,
               readable |-> readable, is_speech |-> sp,
               turns |-> <<Segment("S2", 30, 50, <<>>), Segment("S1", 0, 30, <<>>)>>]
  /\ locals = NoArgs
  /\ ret = NoArgs

\* __init__ and _load_pyannote: without a token, or when loading raises,
\* use_pyannote is switched off and pipeline stays None
DiarizerInit ==
  /\ fn = At("diarize_audio", "__init__")
  /\ fn' = At("diarize_audio", "diarize_audio")
  /\ LET loaded == args.use_pyannote /\ args.token /\ args.pyannote # "load_raises"
     IN  locals' = [use_pyannote |-> loaded, pipeline |-> loaded]
  /\ UNCHANGED <<args, ret>>
  /\ UNCHANGED progVars

\* diarize_audio has no try: an exception of the pipeline call, or of
\* AudioSegment.from_file in _diarize_simple, leaves it
DiarizeAudio ==
  /\ fn = At("diarize_audio", "diarize_audio")
  /\ IF locals.use_pyannote /\ locals.pipeline
       THEN IF args.pyannote = "run_raises"
              THEN fn' = At("diarize_audio", "raised") /\ ret' = ret
              ELSE /\ fn' = At("diarize_audio", "returned")
                   /\ ret' = [segments |-> SortByStart(args.turns)]
       ELSE IF ~args.readable
              THEN fn' = At("diarize_audio", "raised") /\ ret' = ret
              ELSE /\ fn' = At("diarize_audio", "returned")
                   /\ ret' = [segments |-> DiarizeSimple(args.is_speech)]
  /\ UNCHANGED <<args, locals>>
  /\ UNCHANGED progVars

SpecDiarize == InitDiarize /\ [][DiarizerInit \/ DiarizeAudio]_vars

\* ------------------------------------- voice_cloning.py batch_clone_voices --
\* The XTTS cloner of the repository root (used by dubbing_pipeline.py).

MaxCloneSegs == 2

\* clone_voice: "path", "None" or "raised".  Without a model the gTTS
\* fallback runs before the text is looked at, and when gTTS fails
\* _synthesize_default re-raises; with a model a blank text returns None,
\* and a failed synthesis ends in _synthesize_default, which returns the
\* path or re-raises.
CloneVoiceRoot(tts_model, text, written) ==
  IF ~tts_model THEN (IF written /\ text # " " THEN "path" ELSE "raised")
  ELSE IF text = " " THEN "None"
  ELSE IF written THEN "path" ELSE "raised"

InitCloneBatch ==
  /\ Quiet
  /\ fn = At("batch_clone_voices", "loop")
  /\ \E n \in 0..MaxCloneSegs, m \in SUBSET Speakers, loaded \in BOOLEAN :
     \E ss \in [1..n -> [speaker : Speakers, text : {"", " ", "text"}]] :
       args = [segments |-> ss, speaker_audio_map |-> m, tts_model |-> loaded]
  /\ locals = [segments |-> <<>>]
  /\ ret = NoArgs

\* one turn of the loop: `continue` without text or without any speaker
\* audio, else clone_voice and audio_synthesized = True, or the except
\* clause and audio_synthesized = False
CloneBatchSegment ==
  /\ fn = At("batch_clone_voices", "loop")
  /\ Len(locals.segments) < Len(args.segments)
  /\ \E written \in BOOLEAN :
       LET segment == args.segments[Len(locals.segments) + 1]
           out     == CloneVoiceRoot(args.tts_model, segment.text, written)
           skipped == segment.text = "" \/ args.speaker_audio_map = {}
           marked  == [speaker |-> segment.speaker, text |-> segment.text,
                       audio_path |->
                         IF skipped \/ out = "raised" THEN "absent" ELSE out,
                       audio_synthesized |->
                         IF skipped THEN "absent"
                         ELSE IF out = "raised" THEN "False" ELSE "True"]
       IN  locals' = [segments |-> Append(locals.segments, marked)]
  /\ UNCHANGED <<fn, args, ret>>
  /\ UNCHANGED progVars

CloneBatchReturn ==
  /\ fn = At("batch_clone_voices", "loop")
  /\ Len(locals.segments) = Len(args.segments)
  /\ fn' = At("batch_clone_voices", "returned")
  /\ ret' = [segments |-> locals.segments]
  /\ UNCHANGED <<args, locals>>
  /\ UNCHANGED progVars

SpecCloneBatch == InitCloneBatch /\ [][CloneBatchSegment \/ CloneBatchReturn]_vars

\* --------------------------------------------------- reference selectors --
\* audio_dubbing.py _extract_reference_audio ("audio_dubbing") and
\* speaker_diarization.py extract_speaker_references
\* ("speaker_diarization").  Times are tenths of a second.

MaxRefSegs == 3

\* speaker_segs.sort(key=end - start, reverse=True): stable, longest first
RECURSIVE SortByDuration(_)
SortByDuration(ss) ==
  IF ss = <<>> THEN <<>>
  ELSE LET h    == Head(ss)
           rest == SortByDuration(Tail(ss))
       IN  SelectSeq(rest, LAMBDA x : x.end - x.start > h.end - h.start)
             \o <<h>>
             \o SelectSeq(rest, LAMBDA x : x.end - x.start <= h.end - h.start)

\* the loop over top_segs: the part is added, then `if total_dur >= 15.0: break`
RECURSIVE RichParts(_, _, _)
RichParts(top_segs, used, total_dur) ==
  IF top_segs = <<>> \/ total_dur >= 150 THEN used
  ELSE RichParts(Tail(top_segs), Append(used, Head(top_segs)),
                 total_dur + (Head(top_segs).end - Head(top_segs).start))

\* the segments one speaker's reference is cut from.  _extract_reference_audio
\* has no minimum duration; extract_speaker_references takes the first
\* segment of at least min_duration (3 s), else the longest one, and cuts at
\* most 10 s from its start.
ReferenceOf(v, speaker_segs) ==
  LET sorted == SortByDuration(speaker_segs)
      long   == SelectSeq(sorted, LAMBDA x : x.end - x.start >= 30)
  IN  IF v = "audio_dubbing"
        THEN RichParts(SubSeq(sorted, 1, Min(3, Len(sorted))), <<>>, 0)
        ELSE <<IF long # <<>> THEN long[1] ELSE sorted[1]>>

InitRefs ==
  /\ Quiet
  /\ \E v \in {"audio_dubbing", "speaker_diarization"}, readable \in BOOLEAN,
        n \in 0..MaxRefSegs :
     \E spk \in [1..n -> Speakers], dur \in [1..n -> {10, 20, 80, 160}] :
       /\ fn = At(v, "extract")
       /\ args = [readable |-> readable,
                  segments |-> [k \in 1..n |->
                     Segment(spk[k], 200 * (k - 1), 200 * (k - 1) + dur[k], <<>>)]]
  /\ locals = NoArgs
  /\ ret = NoArgs

\* one reference per speaker of the list; when the track cannot be read
\* extract_segment raises out of _extract_reference_audio, and
\* extract_speaker_references returns the empty map
ExtractReferences ==
  /\ fn.at = "extract"
  /\ fn.name \in {"audio_dubbing", "speaker_diarization"}
  /\ LET unique_speakers == {args.segments[k].speaker : k \in 1..Len(args.segments)}
         refs == [speaker \in unique_speakers |->
                    ReferenceOf(fn.name,
                       SelectSeq(args.segments, LAMBDA s : s.speaker = speaker))]
     IN  IF args.readable
           THEN fn' = At(fn.name, "returned") /\ ret' = [speaker_refs |-> refs]
         ELSE IF fn.name = "audio_dubbing" /\ unique_speakers # {}
           THEN fn' = At(fn.name, "raised") /\ ret' = ret
           ELSE fn' = At(fn.name, "returned") /\ ret' = [speaker_refs |-> <<>>]
  /\ UNCHANGED <<args, locals>>
  /\ UNCHANGED progVars

SpecRefs == InitRefs /\ [][ExtractReferences]_vars

\* ================================================================== claims
IsPrefix(a, b) == Len(a) <= Len(b) /\ \A i \in 1..Len(a) : a[i] = b[i]
Invoked(j, s) == \E k \in 1..Len(calls[j]) : calls[j][k] = s

\* batch_clone_voices has returned to process() of job j
BatchReturned(j) == Invoked(j, "synthesize") /\ raised[j] # "synthesize" /\ pc[j] # "clone"

\* C1: when batch synthesis returns no segment with an audio path, the
\* mixer is never invoked and the job ends failed, never completed.
C1_ZeroSynthesizedFails ==
  \A j \in Jobs :
    (BatchReturned(j) /\ \A i \in 1..Len(segs[j]) : ~IsPath(segs[j][i].audio_path))
      => /\ ~Invoked(j, "mix")
         /\ jobs[j].status # "completed"
         /\ pc[j] = "done" => jobs[j].status = "failed"

\* a finished run_pipeline_task job whose only segment failed in every tier
C1_Witness ==
  \E j \in Jobs :
    /\ app = "routes" /\ pc[j] = "done" /\ BatchReturned(j)
    /\ Len(segs[j]) > 0
    /\ \A i \in 1..Len(segs[j]) : segs[j][i].audio_path = None
    /\ lastCall[j].ret = "None" /\ Len(lastCall[j].tiers) = 3
    /\ jobs[j].status = "failed"

\* C2: the stages are invoked in order, each at most once; once a stage has
\* raised no later stage is invoked, and the job ends failed with a message
\* that carries the exception text.
C2_StageFailureShortCircuits ==
  \A j \in Jobs :
    /\ IsPrefix(calls[j], StageOrder)
    /\ raised[j] # "none" =>
         /\ calls[j] # <<>> /\ calls[j][Len(calls[j])] = raised[j]
         /\ jobs[j].status # "completed"
         /\ pc[j] = "done" =>
              /\ jobs[j].status = "failed"
              /\ jobs[j].message.text = StageError(raised[j])

\* a run_pipeline_task job that ended after its mixing stage raised
C2_Witness ==
  \E j \in Jobs :
    /\ app = "routes" /\ pc[j] = "done" /\ raised[j] = "mix"
    /\ jobs[j].status = "failed"
    /\ jobs[j].message = Msg("Pipeline error: ", "mixing failed")

\* C3: under run_pipeline_task a job whose stages all succeeded and whose
\* mixer wrote the output file ends completed, with progress 100 and that
\* file as output_file, and is never marked failed.
C3_SuccessfulJobCompletes ==
  \A j \in Jobs :
    (app = "routes" /\ Invoked(j, "mix") /\ raised[j] = "none"
       /\ fs[OutputPath(j)].kind = "audio")
      => /\ jobs[j].status # "failed"
         /\ pc[j] = "done" =>
              /\ jobs[j].status = "completed"
              /\ jobs[j].progress = 100
              /\ jobs[j].output_file = OutputPath(j)

\* C4: a job submitted with an explicit source language equal to the target
\* language ends failed, and no transcription, translation or synthesis
\* call is made for it.
C4_SameLanguageFailsFast ==
  \A j \in Jobs :
    (app = "routes" /\ jobs[j].status # "absent" /\ src[j] # "auto" /\ src[j] = tgt[j])
      => /\ ~Invoked(j, "transcribe") /\ ~Invoked(j, "translate")
         /\ ~Invoked(j, "synthesize")
         /\ pc[j] = "done" => jobs[j].status = "failed"

\* C5: for a target language outside SUPPORTED_LANGUAGES run_pipeline_task
\* constructs no pipeline, loads no model, invokes no stage, and the job
\* ends failed.
C5_UnsupportedTargetRejected ==
  \A j \in Jobs :
    (app = "routes" /\ jobs[j].status # "absent" /\ tgt[j] \notin SUPPORTED_LANGUAGES)
      => /\ ~pipeline[j].constructed
         /\ ~model[j]
         /\ calls[j] = <<>>
         /\ jobs[j].status # "completed"
         /\ pc[j] = "done" => jobs[j].status = "failed"

\* a finished job whose target language is outside the table
C5_Witness ==
  \E j \in Jobs :
    /\ app = "routes" /\ pc[j] = "done" /\ tgt[j] = "xx"
    /\ jobs[j].status = "failed"
    /\ jobs[j].message = Msg("Error: ", "Target language not supported")

\* C6: a reader that sees status completed finds output_file set, and the
\* download handler never reads a missing output_file.
C6_CompletedHasOutput ==
  /\ (response.req = "status" /\ response.body.status = "completed")
       => response.body.output_file # NoKey
  /\ response.req = "download" => response.code # 500

\* C7: two jobs never use the same synthesized-audio file, and a job's mix
\* contains only audio synthesized for that job.
C7_JobsFilesDisjoint ==
  /\ \A j \in Jobs : \A k \in 1..Len(mixed[j]) : mixed[j][k] = j
  /\ \A j1 \in Jobs : \A j2 \in Jobs \ {j1} :
       \A i1 \in 1..Len(segs[j1]) : \A i2 \in 1..Len(segs[j2]) :
         IsPath(segs[j1][i1].audio_path)
           => segs[j1][i1].audio_path # segs[j2][i2].audio_path

TierRank(t) == CASE t = "xtts" -> 1 [] t = "edge" -> 2 [] OTHER -> 3

\* C8: within one clone_voice call the engines are invoked in the order
\* XTTS, EdgeTTS, gTTS, each at most once; a later engine only after every
\* earlier one failed or (XTTS) was unavailable; none after a success.
C8_TiersInOrder ==
  \A c \in Callers :
    LET t == lastCall[c].tiers
    IN  /\ \A k \in 1..(Len(t) - 1) :
             /\ TierRank(t[k].tier) < TierRank(t[k + 1].tier)
             /\ t[k].outcome # "file"
        /\ \A k \in 1..Len(t) :
             /\ t[k].tier = "gtts" => (k > 1 /\ t[k - 1].tier = "edge")
             /\ (t[k].tier = "edge" /\ k = 1) => ~model[c]
             /\ t[k].tier = "xtts" => model[c]

\* a call in which XTTS raised, EdgeTTS gave an empty file, gTTS succeeded
C8_Witness ==
  /\ Len(lastCall[Script].tiers) = 3
  /\ lastCall[Script].tiers[1] = TierCall("xtts", "raise")
  /\ lastCall[Script].tiers[2] = TierCall("edge", "empty")
  /\ lastCall[Script].tiers[3] = TierCall("gtts", "file")
  /\ lastCall[Script].ret = "path"

\* C9: clone_voice returns the output path only when the engine it accepts
\* produced a non-empty file; an engine that returns without one makes the
\* next engine run.
C9_OnlyVerifiedOutput ==
  \A c \in Callers :
    LET t == lastCall[c].tiers
    IN  /\ lastCall[c].ret = "path" => t[Len(t)].outcome = "file"
        /\ \A k \in 1..Len(t) :
             (t[k].outcome = "empty" /\ t[k].tier # "gtts") => k < Len(t)

\* C10: batch_clone_voices returns every input segment in input order,
\* attempts every segment that has text, and annotates every segment with
\* its outcome; one whose engines all failed has audio_path None and is
\* marked not synthesized.
C10_BatchAnnotatesAll ==
  pc[Script] = "batch_done" =>
    /\ Len(segs[Script]) = Len(batchIn[Script])
    /\ \A i \in 1..Len(segs[Script]) :
         LET seg == segs[Script][i]
         IN  /\ seg.text = batchIn[Script][i].text
             /\ seg.speaker = batchIn[Script][i].speaker
             /\ seg.translated = batchIn[Script][i].translated
             /\ seg.audio_synthesized # "absent"
             /\ seg.audio_path # NoKey
             /\ seg.audio_synthesized = "false" <=> seg.audio_path = None

\* C11: a segment that has text and whose speaker has no entry in the
\* reference map is still attempted by batch_clone_voices (it gets an
\* audio_path and an audio_synthesized mark); it is never skipped.
C11_MissingReferenceSynthesized ==
  \A i \in 1..idx[Script] :
    LET seg == segs[Script][i]
    IN  (SegText(seg) /\ SpeakerOf(seg) \notin ref_map[Script])
          => (seg.audio_path # NoKey /\ seg.audio_synthesized # "absent")

\* the clips mix_audio has placed so far
Placed == IF fn.name = "mix_audio" /\ fn.at # "sort" /\ locals # NoArgs
            THEN locals.placed ELSE <<>>

RECURSIVE SumLen(_)
SumLen(p) == IF p = <<>> THEN 0 ELSE p[1].len + SumLen(Tail(p))

\* C12: in the collision-avoiding mixer clips are placed in start order;
\* a clip placed after another starts at max(its original start in ms, end
\* of the previous clip + 50 ms); no clip starts before its original start
\* and no clip overlaps a clip placed before it.
C12_PlacedAfterPrevious ==
  \A k \in 1..Len(Placed) :
    /\ Placed[k].at >= Placed[k].original_start_ms
    /\ k > 1 =>
         /\ Placed[k].at = Max(Placed[k].original_start_ms, Placed[k - 1].after + 50)
         /\ Placed[k - 1].original_start_ms <= Placed[k].original_start_ms
    /\ \A j \in 1..(k - 1) : Placed[j].at + Placed[j].len <= Placed[k].at

\* a finished mix whose second clip had an original start inside the first
\* clip and went to the end of the first clip plus the buffer
C12_Witness ==
  /\ fn = At("mix_audio", "returned")
  /\ Len(Placed) >= 2
  /\ Placed[1].at = 0 /\ Placed[1].len = 120
  /\ Placed[2].original_start_ms = 100
  /\ Placed[2].at = 170

\* C13: every segment with synthesized audio is placed with its whole
\* clip; after each placement the master length is the placement position
\* plus the clip length, and the exported track is at least as long as the
\* sum of the placed clips.
C13_WholeClipsPlaced ==
  locals # NoArgs /\ fn.name = "mix_audio" =>
    /\ \A k \in 1..Len(Placed) :
         /\ Placed[k].len = args.segments[Placed[k].id].len
         /\ Placed[k].at = Placed[k].target_start_ms
         /\ Placed[k].after = Placed[k].target_start_ms + Placed[k].len
    /\ locals.master = IF Placed = <<>> THEN 0 ELSE Placed[Len(Placed)].after
    /\ fn.at = "returned" =>
         /\ {Placed[k].id : k \in 1..Len(Placed)} =
              {id \in 1..Len(args.segments) : args.segments[id].audio = "file"}
         /\ Len(Placed) = Cardinality({id \in 1..Len(args.segments) :
                                         args.segments[id].audio = "file"})
         /\ ret.master >= SumLen(Placed)
         /\ ret.master = locals.master

\* a finished mix of three segments, one without audio, in which silence
\* was inserted before a clip
C13_Witness ==
  /\ fn = At("mix_audio", "returned")
  /\ Len(args.segments) = 3
  /\ Len(Placed) = 2
  /\ \E id \in 1..3 : args.segments[id].audio = "absent"
  /\ Placed[1].at = 30 /\ Placed[2].at = 120
  /\ Placed[2].cursor = 70
  /\ ret.master = 160

\* C14: the track the fixed-slot mixer exports is exactly as long as the
\* declared total duration: the original source duration when the caller
\* supplied the original, otherwise the maximum segment end; also through
\* mix_dubbed_audio.
C14_LengthIsDeclaredTotal ==
  (fn.name \in {"mix_audio", "mix_dubbed_audio"} /\ fn.at = "returned"
     /\ ret # NoArgs /\ args.segments # <<>>)
    => ret.length = IF args.original_audio_path.given
                      THEN args.original_audio_path.len
                      ELSE ToMs(MaxEnd(args.segments))

\* align_timing has changed the speed of the clip
Sped == fn.name = "align_timing" /\ locals # NoArgs /\ "speed_factor" \in DOMAIN locals

\* C15: the speed factor align_timing applies is current_duration /
\* target_duration clamped into [0.8, 1.2]; neither the factor handed to
\* speedup() nor the frame-rate ratio of the slow-down leaves that range.
C15_SpeedFactorClamped ==
  Sped =>
    LET f == locals.speed_factor
        q == Rat(locals.current_duration, args.target_duration)
    IN  /\ RatLE(Rat(8, 10), f) /\ RatLE(f, Rat(12, 10))
        /\ (RatLE(Rat(8, 10), q) /\ RatLE(q, Rat(12, 10))) => f = q
        /\ ~RatLE(q, Rat(12, 10)) => f = Rat(12, 10)
        /\ ~RatLE(Rat(8, 10), q) => f = Rat(8, 10)
        /\ RatLE(Rat(8, 10), locals.rate) /\ RatLE(locals.rate, Rat(1, 1))

\* a 3.0 s clip aligned to a 2.5 s slot: the factor is exactly 1.2 and the
\* clip comes back 2.5 s long
C15_Witness ==
  /\ Sped /\ fn.at = "returned"
  /\ args.clip = 3000 /\ args.target_duration = 2500000
  /\ locals.speed_factor.num * 10 = 12 * locals.speed_factor.den
  /\ ret.len = 2500

\* C16: the clip align_timing returns is within 0.1 s of the target: a
\* clip within 0.1 s of the target is returned unmodified, any other clip
\* has exactly the target length in milliseconds.
C16_ReturnedWithinTolerance ==
  (fn = At("align_timing", "returned"))
    => /\ WithinTolerance(ret.len * 1000, args.target_duration)
       /\ IF WithinTolerance(args.clip * 1000, args.target_duration)
            THEN ret.len = args.clip /\ ~ret.fitted
            ELSE ret.len = ToMs(args.target_duration)

\* the aligned segments and the diarization list they were aligned with
AlignedSegs == IF fn.name = "transcribe_with_speaker_diarization"
                  /\ fn.at \in {"merge", "returned"}
                 THEN locals.aligned ELSE <<>>

\* the diarization intervals with the largest positive overlap with a, and
\* among them those with the earliest start
BestOverlap(a, S) == {i \in 1..Len(S) : /\ Overlap(a, S[i]) > 0
                                        /\ \A j \in 1..Len(S) : Overlap(a, S[j]) <= Overlap(a, S[i])}
EarliestBest(a, S) == {i \in BestOverlap(a, S) : \A j \in BestOverlap(a, S) : S[i].start <= S[j].start}

C18_SegmentsWellFormed ==
  fn = At("transcribe_with_speaker_diarization", "returned") =>
    \A k \in 1..Len(ret.aligned) :
      ret.aligned[k].end > ret.aligned[k].start /\ ret.aligned[k].speaker # ""

\* C19: merging an already merged list again, with the same threshold,
\* returns the same list.
C19_MergeIdempotent ==
  (fn.at = "returned" /\ fn.name \in {"transcription", "diarization", "helpers", "utils"})
    => ret.merged = locals.merged

\* three segments merged into two by merge_consecutive_speaker_segments, and
\* merged again
C19_Witness ==
  /\ fn = At("transcription", "returned")
  /\ Len(args.segments) = 3 /\ Len(locals.merged) = 2
  /\ Len(locals.merged[1].text) = 3
  /\ ret.merged = locals.merged

\* C20: translate_segments returns one segment per input segment, in
\* order, with speaker, start, end and source text unchanged.
C20_TranslationKeepsFields ==
  (fn.at = "returned" /\ fn.name \in {"dubsmart", "translation", "translation_optimized"})
    => /\ Len(ret.segments) = Len(args.segments)
       /\ \A k \in 1..Len(ret.segments) :
            /\ ret.segments[k].speaker = args.segments[k].speaker
            /\ ret.segments[k].start = args.segments[k].start
            /\ ret.segments[k].end = args.segments[k].end
            /\ ret.segments[k].text = args.segments[k].text

\* C21: dub_audio never returns status 'success' when synthesis failed for
\* every segment (every audio_file holds the one-second silence fallback);
\* such a run returns status 'failed' with an error.
C21_AllFailedIsFailed ==
    (/\ fn = At("dub_audio", "returned")
     /\ Len(locals.synthesized) > 0
     /\ \A i \in 1..Len(locals.synthesized) :
            locals.synthesized[i].content = "silence")
        => (ret.status = "failed" /\ "error" \in DOMAIN ret)

\* C22: when the diarization engine fails, while loading or while running,
\* diarize_audio does not raise: it returns one segment of one speaker that
\* covers the whole track.
C22_EngineFailureDegrades ==
    (/\ fn.name = "diarize_audio"
     /\ fn.at \in {"raised", "returned"}
     /\ args.use_pyannote /\ args.token /\ args.readable
     /\ args.pyannote \in {"load_raises", "run_raises"})
        => /\ fn.at = "returned"
           /\ Len(ret.segments) = 1
           /\ ret.segments[1].start = 0
           /\ ret.segments[1].end = Len(args.is_speech) - 1

\* C28: after batch_clone_voices a segment is marked audio_synthesized =
\* True if and only if its audio_path is a path (not None, not absent).
C28_SynthesizedIffPath ==
    (fn = At("batch_clone_voices", "returned"))
        => \A i \in 1..Len(ret.segments) :
               (ret.segments[i].audio_synthesized = "True")
                   <=> (ret.segments[i].audio_path = "path")

\* C25: every speaker of the list gets one reference, cut from that
\* speaker's segments longest first: at most 3 segments, none added once
\* the segments before it add up to 15 s, and the single longest segment
\* when no segment of the speaker reaches the minimum duration (3 s).
C25_ReferencePerSpeaker ==
    (/\ fn.name \in {"audio_dubbing", "speaker_diarization"}
     /\ fn.at = "returned"
     /\ args.readable)
        => \A k \in 1..Len(args.segments) :
             LET speaker == args.segments[k].speaker
                 own     == SelectSeq(args.segments, LAMBDA s : s.speaker = speaker)
                 used    == ret.speaker_refs[speaker]
                 Dur(s)  == s.end - s.start
                 longest == CHOOSE s \in {own[i] : i \in 1..Len(own)} :
                              \A i \in 1..Len(own) : Dur(own[i]) <= Dur(s)
             IN  /\ speaker \in DOMAIN ret.speaker_refs
                 /\ Len(used) \in 1..3
                 /\ \A i \in 1..Len(used) :
                      /\ \E j \in 1..Len(own) : own[j] = used[i]
                      /\ \A j \in 1..Len(own) :
                           Dur(own[j]) > Dur(used[i])
                             => \E h \in 1..(i - 1) : used[h] = own[j]
                 /\ \A i \in 2..Len(used) :
                      SumLen([h \in 1..(i - 1) |-> [len |-> Dur(used[h])]]) < 150
                 /\ (\A j \in 1..Len(own) : Dur(own[j]) < 30)
                      => (Len(used) = 1 /\ Dur(used[1]) = Dur(longest))

\* C23: merge_consecutive_speaker_segments (and merge_overlapping_segments
\* of helpers.py) folds a segment into its predecessor exactly when both
\* have the same speaker and next.start - previous.end <= max_gap: the
\* output is the input cut at every other place, each output segment has
\* the speaker and start of the first segment of its run, the end of the
\* last, and the texts of the run joined by single spaces in input order;
\* no two adjacent output segments could still be merged.
C23_MergedExactlyWhenClose ==
  (fn.at = "again" /\ fn.name \in {"transcription", "helpers"})
    => LET segments == args.segments
           merged   == locals.merged
           n        == Len(segments)
           cuts     == {k \in 1..n :
                          \/ k = 1
                          \/ segments[k].speaker # segments[k - 1].speaker
                          \/ segments[k].start - segments[k - 1].end > args.max_gap}
       IN  /\ Len(merged) = Cardinality(cuts)
           /\ \A b \in cuts :
                LET i    == Cardinality({x \in cuts : x <= b})
                    rest == {x \in cuts : x > b}
                    last == IF rest = {} THEN n
                            ELSE (CHOOSE x \in rest : \A y \in rest : x <= y) - 1
                    m    == last - b + 1
                IN  /\ merged[i].speaker = segments[b].speaker
                    /\ \A k \in b..last : segments[k].speaker = merged[i].speaker
                    /\ merged[i].start = segments[b].start
                    /\ merged[i].end = segments[last].end
                    /\ Len(merged[i].text) = 2 * m - 1
                    /\ \A j \in 1..m : merged[i].text[2 * j - 1] = segments[b + j - 1].text[1]
                    /\ \A j \in 1..(m - 1) : merged[i].text[2 * j] = " "
           /\ \A i \in 1..(Len(merged) - 1) :
                \/ merged[i].speaker # merged[i + 1].speaker
                \/ merged[i + 1].start - merged[i].end > args.max_gap

\* S1 0-1 s, S1 1.2-2 s and S2 4-6 s with max_gap 0.5 s: the first two are
\* merged into "a b", the third stays apart
C23_Witness ==
  /\ fn = At("transcription", "again")
  /\ args.max_gap = 5
  /\ args.segments = <<Segment("S1", 0, 10, <<"a">>), Segment("S1", 12, 20, <<"b">>),
                       Segment("S2", 40, 60, <<"d">>)>>
  /\ locals.merged = <<Segment("S1", 0, 20, <<"a", " ", "b">>),
                       Segment("S2", 40, 60, <<"d">>)>>

\* C29: merging never shrinks a segment: every source segment lies inside
\* the span of a merged segment (of its own speaker, where the merger
\* compares speakers), for a source list in start order.
C29_MergeCoversSources ==
  (/\ fn.at = "again"
   /\ fn.name \in {"transcription", "diarization", "helpers", "utils"}
   /\ \A k \in 1..(Len(args.segments) - 1) :
          args.segments[k].start <= args.segments[k + 1].start)
    => \A k \in 1..Len(args.segments) :
         \E i \in 1..Len(locals.merged) :
           /\ fn.name # "utils" => locals.merged[i].speaker = args.segments[k].speaker
           /\ locals.merged[i].start <= args.segments[k].start
           /\ args.segments[k].end <= locals.merged[i].end

\* C24: a segment without an audio path, or whose audio file is missing, is
\* skipped by the mixer without raising: the mix completes, the output file
\* is written and every segment that has a readable clip is placed.
C24_UnusableSegmentSkipped ==
  (fn.name = "mix_audio" /\ fn.at \in {"raised", "returned"} /\ args.segments # <<>>)
    => /\ fn.at = "returned"
       /\ ret.path = "output_path"
       /\ \A k \in 1..Len(args.segments) :
            args.segments[k].audio = "file"
              => \E p \in 1..Len(Placed) : Placed[p].id = args.segments[k].id

\* C30: the first clip put on the master track starts at exactly its
\* original start int(start * 1000) ms, without the 50 ms buffer, also
\* when segments before it in the sorted list were skipped.
C30_FirstPlacedAtOriginalStart ==
  Placed # <<>>
    => /\ Placed[1].target_start_ms = Placed[1].original_start_ms
       /\ Placed[1].at = Placed[1].original_start_ms

C27_StatusAndProgress ==
  /\ [][\A j \in Jobs :
          jobs[j] # NoJob =>
            /\ jobs'[j].status # jobs[j].status =>
                 /\ jobs[j].status = "processing"
                 /\ jobs'[j].status \in {"completed", "failed"}
            /\ jobs'[j].progress >= jobs[j].progress]_vars
  /\ [](\A j \in Jobs :
          jobs[j] # NoJob =>
            (jobs[j].progress = 100 <=> jobs[j].status = "completed"))

====
